---- MODULE Spec2Model ----
(***************************************************************************)
(* The IP-range geolocation join of src/data_processing.py.                *)
(*                                                                         *)
(* merge_with_geo(fraud_df, ip_df) copies both tables, derives the integer *)
(* key ip_int, sorts the transactions by key and the ranges by lower       *)
(* bound, joins them with a backward as-of merge, and finally overwrites   *)
(* the country of every row whose key is not inside the matched range with *)
(* "Unknown".  ip_to_int(ip) turns a dotted IP string into an integer and  *)
(* returns 0 when the string does not parse.                               *)
(*                                                                         *)
(* A DataFrame is a record [dtypes, rows]: dtypes maps each column name to *)
(* its dtype and rows is the sequence of rows in positional order, each a  *)
(* function from column name to value.  Numeric columns hold integer       *)
(* values, for which astype('int64') keeps the values.  An IP string is a  *)
(* sequence of the parts between its dots; a part is a number or Garbage.  *)
(* sort_values is called with its default kind 'quicksort', which is not   *)
(* stable, so the order of rows with equal sort keys is left open.         *)
(***************************************************************************)
EXTENDS Integers, Sequences, FiniteSets, TLC

VARIABLES fraud_df, ip_df, merged_df, ip_sorted, raw_ip, pc

vars == <<fraud_df, ip_df, merged_df, ip_sorted, raw_ip, pc>>

----------------------------------------------------------------------------
(* Bounds of the model *)

MaxKey == 2        \* range bounds are drawn from 0..MaxKey, keys from 0..MaxKey+1
MaxRanges == 2     \* rows of the range table every key is looked up in
MaxRows == 3       \* rows of the transaction table in the batch inputs
MaxParts == 5      \* parts of an IP string (inet_aton takes at most 4)

Countries == {"A", "B"}
Bounds == 0..MaxKey
Keys == 0..(MaxKey + 1)

----------------------------------------------------------------------------
(* Values *)

Unknown == "Unknown"
NaN == -1              \* the missing value of a numeric column
NaNStr == "nan"        \* the missing value of an object column
Garbage == -1          \* a part of an IP string that is not a number

NoFrame == [dtypes |-> <<>>, rows |-> <<>>]

Columns(df) == DOMAIN df.dtypes

SeqsUpTo(S, n) == UNION {[1..m -> S] : m \in 0..n}

Perms(n) == {p \in [1..n -> 1..n] : \A a, b \in 1..n : a # b => p[a] # p[b]}

----------------------------------------------------------------------------
(* IP strings: socket.inet_aton and ip_to_int *)

IpParts == {Garbage, 0, 1, 256}
IpStrings == SeqsUpTo(IpParts, MaxParts)

Pow256(n) == IF n = 0 THEN 1 ELSE IF n = 1 THEN 256 ELSE IF n = 2 THEN 65536 ELSE 16777216

\* inet_aton accepts "a", "a.b", "a.b.c" and "a.b.c.d": every part but the
\* last is one byte, the last part fills the remaining bytes.
inet_aton_ok(s) ==
    /\ Len(s) \in 1..4
    /\ \A j \in 1..Len(s) : s[j] # Garbage
    /\ \A j \in 1..(Len(s) - 1) : s[j] <= 255
    /\ Len(s) > 1 => s[Len(s)] < Pow256(5 - Len(s))

RECURSIVE PackParts(_, _)
PackParts(s, j) ==
    IF j = Len(s) THEN s[j]
    ELSE s[j] * Pow256(4 - j) + PackParts(s, j + 1)

inet_aton(s) == PackParts(s, 1)

\* ip_to_int with a sentinel other than 0
ip_to_int_other_sentinel(ip) == IF inet_aton_ok(ip) THEN inet_aton(ip) ELSE 1

\* except (socket.error, ValueError): return 0
ip_to_int(ip) == IF inet_aton_ok(ip) THEN inet_aton(ip) ELSE 0

----------------------------------------------------------------------------
(* pandas operations used by merge_with_geo *)

Column(df, col) == [j \in 1..Len(df.rows) |-> df.rows[j][col]]

\* a copy that is the object itself: the call then works on the caller's frame
copy_alias(h, ref) == [heap |-> h, ref |-> ref]

\* DataFrame.copy(): a new object with the same contents
copy(h, ref) == [heap |-> Append(h, h[ref]), ref |-> Len(h) + 1]

\* df[col] = vals: assignment of a column, in place
SetColumn(h, ref, col, dtype, vals) ==
    [h EXCEPT ![ref] =
        [dtypes |-> (col :> dtype) @@ @.dtypes,
         rows |-> [j \in 1..Len(@.rows) |-> (col :> vals[j]) @@ @.rows[j]]]]

\* int(s) of a string: only a single run of digits converts
IsIntLiteral(s) == Len(s) = 1 /\ s[1] # Garbage

\* Series.astype('int64') raises ValueError on a string that is no integer
CanCast(df, col) ==
    \/ df.dtypes[col] # "object"
    \/ \A j \in 1..Len(df.rows) : IsIntLiteral(df.rows[j][col])

astype_int64(df, col) ==
    [j \in 1..Len(df.rows) |->
        IF df.dtypes[col] = "object" THEN df.rows[j][col][1] ELSE df.rows[j][col]]

IsSorted(vals) == \A a \in 1..(Len(vals) - 1) : vals[a] <= vals[a + 1]

\* a sort that leaves the rows as they are
sort_values_unsorted(df, col) == {df}

\* the orders in which a sort ascending in vals may leave the positions S:
\* a position with the least value first; positions with equal values in any order
RECURSIVE SortedOrders(_, _)
SortedOrders(vals, S) ==
    IF S = {} THEN {<<>>}
    ELSE UNION {{<<j>> \o rest : rest \in SortedOrders(vals, S \ {j})} :
                   j \in {a \in S : \A b \in S : vals[a] <= vals[b]}}

\* DataFrame.sort_values(col): a new frame, ascending in col.  The default
\* kind is 'quicksort', which is not stable: rows with equal keys may come
\* out in any order.
sort_values(df, col) ==
    {[dtypes |-> df.dtypes, rows |-> [j \in 1..Len(p) |-> df.rows[p[j]]]] :
        p \in SortedOrders(Column(df, col), 1..Len(df.rows))}

\* the inner loop with exact matches excluded (< in place of <=)
RECURSIVE advance_strict(_, _, _)
advance_strict(right_values, v, right_pos) ==
    IF right_pos < Len(right_values) /\ right_values[right_pos + 1] < v
    THEN advance_strict(right_values, v, right_pos + 1)
    ELSE right_pos

\* the inner loop of the backward as-of join: advance right_pos while
\* right_values[right_pos] <= the left value (positions are 0-based)
RECURSIVE advance(_, _, _)
advance(right_values, v, right_pos) ==
    IF right_pos < Len(right_values) /\ right_values[right_pos + 1] <= v
    THEN advance(right_values, v, right_pos + 1)
    ELSE right_pos

\* right_indexer of the backward as-of join: for every left position the
\* 0-based position of the last right row whose key is <= the left key, or -1
RECURSIVE asof_join_backward(_, _, _, _)
asof_join_backward(left_values, right_values, left_pos, right_pos) ==
    IF left_pos > Len(left_values) THEN <<>>
    ELSE LET start == IF right_pos < 0 THEN 0 ELSE right_pos
             found == advance(right_values, left_values[left_pos], start) - 1
         IN <<found>> \o
            asof_join_backward(left_values, right_values, left_pos + 1, found)

\* the row of missing values a left row gets when nothing matches
MissingRow(right) ==
    [c \in Columns(right) |-> IF right.dtypes[c] = "object" THEN NaNStr ELSE NaN]

\* pd.merge_asof(left, right, left_on, right_on, direction='backward'): the
\* rows of left in left's order, each extended by the matched row of right;
\* an int64 column of right becomes float64 when some row has no match
merge_asof(left, right, left_on, right_on) ==
    LET idx == asof_join_backward(Column(left, left_on), Column(right, right_on), 1, 0)
        missing == \E j \in 1..Len(idx) : idx[j] = -1
    IN [dtypes |-> left.dtypes @@
                   [c \in Columns(right) |->
                       IF missing /\ right.dtypes[c] = "int64"
                       THEN "float64" ELSE right.dtypes[c]],
        rows |-> [j \in 1..Len(left.rows) |->
                    left.rows[j] @@
                    (IF idx[j] = -1 THEN MissingRow(right)
                     ELSE right.rows[idx[j] + 1])]]

\* comparisons of numeric columns: a comparison with NaN is False
Ge(a, b) == a # NaN /\ b # NaN /\ a >= b
Le(a, b) == a # NaN /\ b # NaN /\ a <= b

\* a validation that trusts the predecessor: the upper bound is not checked
valid_lower_only(row) == Ge(row["ip_int"], row["lower_bound_ip_address"])

\* a validation with an exclusive upper bound
valid_exclusive_upper(row) ==
    /\ Ge(row["ip_int"], row["lower_bound_ip_address"])
    /\ Le(row["ip_int"] + 1, row["upper_bound_ip_address"])

\* Range validation
valid(row) ==
    /\ Ge(row["ip_int"], row["lower_bound_ip_address"])
    /\ Le(row["ip_int"], row["upper_bound_ip_address"])

fillna(v) == IF v = NaNStr THEN Unknown ELSE v

\* no validation and no fillna: the merged frame as the as-of merge left it
RangeValidation_skipped(df) == df

\* merged_df.loc[~valid, 'country'] = 'Unknown', then fillna('Unknown')
RangeValidation(df) ==
    [dtypes |-> df.dtypes,
     rows |-> [j \in 1..Len(df.rows) |->
                ("country" :> fillna(IF valid(df.rows[j]) THEN df.rows[j]["country"]
                                     ELSE Unknown))
                @@ df.rows[j]]]

\* merge_with_geo(fraud_df, ip_df) on the heap h: the set of its possible
\* outcomes, one per order the two sorts may leave equal keys in
merge_with_geo(h, fraud_ref, ip_ref) ==
    LET c1 == copy(h, fraud_ref)
        c2 == copy(c1.heap, ip_ref)
        f == c1.ref
        i == c2.ref
        h2 == c2.heap
    IN  IF ~CanCast(h2[f], "ip_address")
        THEN {[raised |-> TRUE, heap |-> h2, ip_sorted |-> NoFrame, merged_df |-> NoFrame]}
        ELSE
        LET h3 == SetColumn(h2, f, "ip_int", "int64", astype_int64(h2[f], "ip_address"))
            h4 == SetColumn(h3, i, "lower_bound_ip_address", "int64",
                            astype_int64(h3[i], "lower_bound_ip_address"))
            h5 == SetColumn(h4, i, "upper_bound_ip_address", "int64",
                            astype_int64(h4[i], "upper_bound_ip_address"))
        IN {IF IsSorted(Column(fs, "ip_int"))
               /\ IsSorted(Column(is, "lower_bound_ip_address"))
            THEN [raised |-> FALSE, heap |-> h5, ip_sorted |-> is,
                  merged_df |-> RangeValidation(
                      merge_asof(fs, is, "ip_int", "lower_bound_ip_address"))]
            ELSE [raised |-> TRUE, heap |-> h5, ip_sorted |-> is, merged_df |-> NoFrame] :
                fs \in sort_values(h5[f], "ip_int"),
                is \in sort_values(h5[i], "lower_bound_ip_address")}

----------------------------------------------------------------------------
(* Inputs *)

FraudDtypes(d) == [user_id |-> "int64", ip_address |-> d]
IpDtypes == [lower_bound_ip_address |-> "int64", upper_bound_ip_address |-> "int64",
             country |-> "object"]

IpRange == [lower_bound_ip_address : Bounds, upper_bound_ip_address : Bounds,
            country : Countries]

\* a transaction table whose ip_address column holds vals; user_id numbers the rows
FraudFrame(d, vals) ==
    [dtypes |-> FraudDtypes(d),
     rows |-> [j \in 1..Len(vals) |-> [user_id |-> j, ip_address |-> vals[j]]]]

IpFrame(rs) == [dtypes |-> IpDtypes, rows |-> rs]

\* the caller holds the transactions with ip_address column vals (of dtype d)
\* and the range table with rows rs
Holds(d, vals, rs) == fraud_df = FraudFrame(d, vals) /\ ip_df = IpFrame(rs)

----------------------------------------------------------------------------
(* The state machine *)

\* every key once, in ascending order
EveryKey == [j \in 1..(MaxKey + 2) |-> j - 1]

\* every key looked up against a table of up to MaxRanges ranges, and batches
\* of up to MaxRows keys looked up against a table of at most one range
Init ==
    /\ \/ \E rs \in SeqsUpTo(IpRange, MaxRanges) : Holds("int64", EveryKey, rs)
       \/ \E ks \in SeqsUpTo(Keys, MaxRows), rs \in SeqsUpTo(IpRange, 1) :
             Holds("int64", ks, rs)
    /\ merged_df = NoFrame
    /\ ip_sorted = NoFrame
    /\ raw_ip = <<>>
    /\ pc = "ready"

\* f_df = merge_with_geo(f_df, i_df): the whole call.  The caller's two
\* objects are the heap the call starts from; the objects the call allocates
\* die with it, except the frame it returns.
MergeWithGeo ==
    /\ pc \in {"raw", "ready"}
    /\ \E o \in merge_with_geo(<<fraud_df, ip_df>>, 1, 2) :
        /\ fraud_df' = o.heap[1]
        /\ ip_df' = o.heap[2]
        /\ merged_df' = o.merged_df
        /\ ip_sorted' = o.ip_sorted
        /\ pc' = IF o.raised THEN "raised" ELSE "returned"
    /\ UNCHANGED raw_ip

Next == MergeWithGeo

Spec == Init /\ [][Next]_vars

\* the key derivation by ip_to_int, applied to the ip_address column before
\* the call.  __main__ itself does not call ip_to_int: on a column of strings
\* merge_with_geo derives the key by astype('int64') alone, which raises on
\* every string that is no integer (MergeWithGeo from pc = "raw").
ApplyIpToInt ==
    /\ pc = "raw"
    /\ raw_ip' = Column(fraud_df, "ip_address")
    /\ fraud_df' = FraudFrame("int64",
                      [j \in 1..Len(fraud_df.rows) |->
                          ip_to_int(fraud_df.rows[j]["ip_address"])])
    /\ pc' = "ready"
    /\ UNCHANGED <<ip_df, merged_df, ip_sorted>>

\* transactions that still carry their IP address as a string
InitRaw ==
    /\ \E ss \in SeqsUpTo(IpStrings, 1), rs \in SeqsUpTo(IpRange, 1) :
          Holds("object", ss, rs)
    /\ merged_df = NoFrame
    /\ ip_sorted = NoFrame
    /\ raw_ip = <<>>
    /\ pc = "raw"

NextRaw == ApplyIpToInt \/ MergeWithGeo

SpecRaw == InitRaw /\ [][NextRaw]_vars

----------------------------------------------------------------------------
(* Vocabulary of the properties *)

Returned == pc = "returned"

Lower(r) == r["lower_bound_ip_address"]
Upper(r) == r["upper_bound_ip_address"]
Contains(r, k) == Lower(r) <= k /\ k <= Upper(r)

RangeRows == {ip_df.rows[j] : j \in 1..Len(ip_df.rows)}
MergedRows == {merged_df.rows[j] : j \in 1..Len(merged_df.rows)}

\* the LookupResult of every transaction of a returned frame, by user_id
Results(df) == {<<df.rows[j]["user_id"], df.rows[j]["country"]>> : j \in 1..Len(df.rows)}

\* the ranges are pairwise disjoint and none is inverted
DisjointRanges ==
    /\ \A r \in RangeRows : Lower(r) <= Upper(r)
    /\ \A a, b \in 1..Len(ip_df.rows) :
          a # b => \/ Upper(ip_df.rows[a]) < Lower(ip_df.rows[b])
                   \/ Upper(ip_df.rows[b]) < Lower(ip_df.rows[a])

DistinctLowers ==
    \A a, b \in 1..Len(ip_df.rows) :
        a # b => Lower(ip_df.rows[a]) # Lower(ip_df.rows[b])

\* the two-step lookup over a sorted table, stated on its own: the last row
\* with lower <= k is the candidate, and it counts only if k <= its upper
LookupIn(tbl, k) ==
    LET below == {j \in 1..Len(tbl.rows) : Lower(tbl.rows[j]) <= k}
    IN  IF below = {} THEN Unknown
        ELSE LET cand == tbl.rows[CHOOSE j \in below : \A m \in below : m <= j]
             IN IF k <= Upper(cand) THEN cand["country"] ELSE Unknown

\* what a call on the caller's transactions and the range rows rs may return
OutcomesOver(rs) == merge_with_geo(<<fraud_df, IpFrame(rs)>>, 1, 2)

RemoveAt(sq, j) == [m \in 1..(Len(sq) - 1) |-> IF m < j THEN sq[m] ELSE sq[m + 1]]

----------------------------------------------------------------------------
(* C1 *)

\* C1 as stated: for every key and every range table, overlaps allowed, the
\* country is other than "Unknown" iff some range contains the key, and it
\* is then the country of a range that contains the key.
C1_AsStated ==
    Returned =>
        \A m \in MergedRows :
            /\ (m["country"] # Unknown) <=> (\E r \in RangeRows : Contains(r, m["ip_int"]))
            /\ m["country"] # Unknown =>
                 \E r \in RangeRows : Contains(r, m["ip_int"]) /\ r["country"] = m["country"]

\* C1 amended: a country other than "Unknown" is always the country of a
\* range that contains the key; and when the ranges are pairwise disjoint
\* with lower <= upper (gaps allowed), the country is other than "Unknown"
\* iff some range contains the key.
C1_ContainmentLookup ==
    Returned =>
        \A m \in MergedRows :
            /\ m["country"] # Unknown =>
                 \E r \in RangeRows : Contains(r, m["ip_int"]) /\ r["country"] = m["country"]
            /\ DisjointRanges =>
                 ((m["country"] # Unknown) <=> (\E r \in RangeRows : Contains(r, m["ip_int"])))

C1_Witness ==
    /\ Returned
    /\ Len(ip_df.rows) = 2
    /\ DisjointRanges
    /\ Lower(ip_df.rows[1]) > Upper(ip_df.rows[2]) + 1
    /\ \E m \in MergedRows : m["ip_int"] = Lower(ip_df.rows[1]) /\ m["country"] = ip_df.rows[1]["country"]

----------------------------------------------------------------------------
(* C2 *)

----------------------------------------------------------------------------
(* C3 *)

\* the ip_address column the call sees holds the keys ip_to_int derived
Derived == pc # "raw" /\ fraud_df.dtypes["ip_address"] = "int64"

----------------------------------------------------------------------------
(* C4 *)

\* C4: over a table of the single range {L, U, X} with L <= U the bounds are
\* inclusive: keys L and U get X, keys L-1 and U+1 get "Unknown".
C4_InclusiveBounds ==
    (Returned /\ Len(ip_df.rows) = 1 /\ Lower(ip_df.rows[1]) <= Upper(ip_df.rows[1])) =>
        LET L == Lower(ip_df.rows[1])
            U == Upper(ip_df.rows[1])
            X == ip_df.rows[1]["country"]
        IN \A m \in MergedRows :
              /\ m["ip_int"] \in {L, U} => m["country"] = X
              /\ m["ip_int"] \in {L - 1, U + 1} => m["country"] = Unknown

C4_Witness ==
    /\ Returned
    /\ Len(ip_df.rows) = 1
    /\ Lower(ip_df.rows[1]) = 1
    /\ Upper(ip_df.rows[1]) = 2
    /\ Column(merged_df, "ip_int") = <<0, 2, 3>>
    /\ Column(merged_df, "country") = <<Unknown, ip_df.rows[1]["country"], Unknown>>

----------------------------------------------------------------------------
(* C5 *)

\* the range rows in every order of input
RowOrders(rs) == {[j \in 1..Len(rs) |-> rs[p[j]]] : p \in Perms(Len(rs))}

\* C5 as stated: the same ranges given in any order of rows, several ranges
\* with the same lower bound included, give every key the same result.
C5_AsStated ==
    Returned =>
        \A rs \in RowOrders(ip_df.rows) :
            \A o \in OutcomesOver(rs) :
                ~o.raised /\ Results(o.merged_df) = Results(merged_df)

\* C5 amended: the same ranges given in any order of rows give every key the
\* same result when no two ranges have the same lower bound.
C5_PermutationInvariant ==
    (Returned /\ DistinctLowers) =>
        \A rs \in RowOrders(ip_df.rows) :
            \A o \in OutcomesOver(rs) :
                ~o.raised /\ Results(o.merged_df) = Results(merged_df)

C5_Witness ==
    /\ Returned
    /\ DistinctLowers
    /\ Len(ip_df.rows) = 2
    /\ Lower(ip_df.rows[1]) > Lower(ip_df.rows[2])
    /\ Upper(ip_df.rows[2]) >= Lower(ip_df.rows[1])
    /\ \E m \in MergedRows : m["country"] = ip_df.rows[1]["country"]
                             /\ m["country"] # ip_df.rows[2]["country"]

----------------------------------------------------------------------------
(* C6 *)

Inverted(r) == Lower(r) > Upper(r)

\* the range the as-of merge matched to the row m
MatchedBy(m, r) ==
    /\ m["lower_bound_ip_address"] = Lower(r)
    /\ m["upper_bound_ip_address"] = Upper(r)

\* C6 as stated: a range with lower > upper is indexed without raising, never
\* yields Matched, and is inert: every key gets the result it gets over the
\* table without that range.
C6_AsStated ==
    /\ pc # "raised"
    /\ Returned =>
        \A j \in 1..Len(ip_df.rows) :
            Inverted(ip_df.rows[j]) =>
               /\ \A m \in MergedRows :
                     MatchedBy(m, ip_df.rows[j]) => m["country"] = Unknown
               /\ \A o \in OutcomesOver(RemoveAt(ip_df.rows, j)) :
                     Results(o.merged_df) = Results(merged_df)

\* C6 amended: a range with lower > upper is indexed without raising and
\* never yields Matched, but it is not inert: a key whose candidate it is
\* gets "Unknown" even when another range contains the key.  Every key gets
\* either "Unknown" or a result it can get over the table without that range.
C6_InvertedNeverMatches ==
    /\ pc # "raised"
    /\ Returned =>
        \A j \in 1..Len(ip_df.rows) :
            Inverted(ip_df.rows[j]) =>
               \A m \in MergedRows :
                  /\ MatchedBy(m, ip_df.rows[j]) => m["country"] = Unknown
                  /\ \/ m["country"] = Unknown
                     \/ \E o \in OutcomesOver(RemoveAt(ip_df.rows, j)) :
                           <<m["user_id"], m["country"]>> \in Results(o.merged_df)

C6_Witness ==
    /\ Returned
    /\ Len(ip_df.rows) = 2
    /\ Inverted(ip_df.rows[2])
    /\ Contains(ip_df.rows[1], Lower(ip_df.rows[2]))
    /\ \E m \in MergedRows :
          /\ m["ip_int"] = Lower(ip_df.rows[2])
          /\ MatchedBy(m, ip_df.rows[2])
          /\ m["country"] = Unknown

----------------------------------------------------------------------------
(* C7 *)

\* C7: degenerate inputs are no error: over an empty range table every key
\* gets "Unknown", and an empty key sequence gets an empty result sequence.
C7_DegenerateInputs ==
    /\ (ip_df.rows = <<>> \/ fraud_df.rows = <<>>) => pc # "raised"
    /\ (Returned /\ ip_df.rows = <<>>) =>
          /\ Len(merged_df.rows) = Len(fraud_df.rows)
          /\ \A m \in MergedRows : m["country"] = Unknown
    /\ (Returned /\ fraud_df.rows = <<>>) => merged_df.rows = <<>>

C7_Witness ==
    /\ Returned
    /\ ip_df.rows = <<>>
    /\ Len(fraud_df.rows) = 2
    /\ Column(merged_df, "country") = <<Unknown, Unknown>>

----------------------------------------------------------------------------
(* C8 *)

\* ascending in lower, ties in lower broken by ascending upper
OrderedByLowerThenUpper(tbl) ==
    \A a, b \in 1..Len(tbl.rows) :
        a < b => \/ Lower(tbl.rows[a]) < Lower(tbl.rows[b])
                 \/ /\ Lower(tbl.rows[a]) = Lower(tbl.rows[b])
                    /\ Upper(tbl.rows[a]) <= Upper(tbl.rows[b])

\* every run over the same two tables returns the results this run returned
SameOnEveryRun ==
    \A o \in OutcomesOver(ip_df.rows) :
        ~o.raised /\ Results(o.merged_df) = Results(merged_df)

\* C8 as stated: the ranges are ordered by ascending lower with ties in lower
\* broken by ascending upper, so two runs over the same range table and the
\* same key return the same result.
C8_AsStated ==
    Returned => OrderedByLowerThenUpper(ip_sorted) /\ SameOnEveryRun

\* C8 amended: the ranges are ordered by ascending lower only; ranges with
\* the same lower bound are left in the order the sort happens to give them,
\* not in ascending upper.  Two runs over the same range table and the same
\* key return the same result when no two ranges have the same lower bound
\* (as for {10,50,"A"} and {20,30,"B"}).
C8_OrderedByLower ==
    /\ pc # "raised"
    /\ Returned =>
          /\ IsSorted(Column(ip_sorted, "lower_bound_ip_address"))
          /\ ip_sorted \in {IpFrame(rs) : rs \in RowOrders(ip_df.rows)}
          /\ DistinctLowers => SameOnEveryRun

C8_Witness ==
    /\ Returned
    /\ Len(ip_df.rows) = 2
    /\ Lower(ip_df.rows[1]) = 1
    /\ Lower(ip_df.rows[2]) = 0
    /\ Upper(ip_df.rows[1]) = 1
    /\ Upper(ip_df.rows[2]) = 2
    /\ ip_sorted.rows = <<ip_df.rows[2], ip_df.rows[1]>>
    /\ \E m \in MergedRows : m["ip_int"] = 1 /\ m["country"] = ip_df.rows[1]["country"]

----------------------------------------------------------------------------
(* C9 *)

\* C9: the candidate of a key is a range with the greatest lower <= key; the
\* result is the candidate's country only when key <= candidate.upper, and
\* it is "Unknown" when no range has lower <= key or when the candidate's
\* upper < key.
C9_PredecessorThenContainment ==
    Returned =>
        \A m \in MergedRows :
            LET k == m["ip_int"]
                below == {r \in RangeRows : Lower(r) <= k}
            IN  IF below = {}
                THEN /\ m["lower_bound_ip_address"] = NaN
                     /\ m["country"] = Unknown
                ELSE \E cand \in below :
                        /\ \A r \in below : Lower(r) <= Lower(cand)
                        /\ MatchedBy(m, cand)
                        /\ m["country"] = IF k <= Upper(cand) THEN cand["country"]
                                          ELSE Unknown

C9_Witness ==
    /\ Returned
    /\ Len(ip_df.rows) = 2
    /\ Upper(ip_df.rows[1]) + 1 < Lower(ip_df.rows[2])
    /\ Lower(ip_df.rows[1]) <= Upper(ip_df.rows[1])
    /\ \E m \in MergedRows :
          /\ m["ip_int"] = Upper(ip_df.rows[1]) + 1
          /\ MatchedBy(m, ip_df.rows[1])
          /\ m["country"] = Unknown

----------------------------------------------------------------------------
(* C10 *)

\* C10: a call of merge_with_geo leaves the caller's transaction table and
\* range table as they were: the same rows in the same order with the same
\* columns.
C10_InputsUnchanged ==
    [][(pc \in {"raw", "ready"} /\ pc' \in {"returned", "raised"})
          => (fraud_df' = fraud_df /\ ip_df' = ip_df)]_vars

C10_Witness ==
    /\ Returned
    /\ Len(fraud_df.rows) = 2
    /\ Len(ip_df.rows) = 1
    /\ fraud_df.rows[1]["ip_address"] > fraud_df.rows[2]["ip_address"]
    /\ "ip_int" \in Columns(merged_df)
    /\ "ip_int" \notin Columns(fraud_df)
    /\ merged_df.rows[1]["user_id"] = 2
    /\ merged_df.rows[1]["country"] = Unknown
    /\ merged_df.rows[2]["country"] # Unknown
    /\ ip_df.rows[1]["country"] = merged_df.rows[2]["country"]

====
